---- MODULE Spec2Model ----
(***************************************************************************)
(* Video matchmaking and session lifecycle of the backend                  *)
(* (src/routers/match_routes.py, src/routers/auth.py, src/models.py).     *)
(*                                                                         *)
(* The relational store (tables users and chat_sessions) is the shared     *)
(* state.  Request handlers run concurrently, one SQLAlchemy session each  *)
(* (src/database.py:32: autoflush=False, expire_on_commit left at its      *)
(* default True).  A handler is cut into steps at the SQL statements it    *)
(* issues: every SELECT reads the committed rows of that moment, every     *)
(* db.commit() flushes the handler's pending attribute changes as one      *)
(* atomic write.  The unit of work writes only the columns whose new       *)
(* value differs from the value the handler loaded; an attribute assigned  *)
(* while expired (after a commit, before a reload) is always written.      *)
(*                                                                         *)
(* Under Spec all requests fall into one instant of the clock: every       *)
(* presence and freshness window is open, no timestamp ages.  A user has   *)
(* at most one request per endpoint in flight, and at most MaxInFlight     *)
(* requests are in flight at once.                                         *)
(*                                                                         *)
(* More specifications run the same handlers from other starting points:   *)
(* SpecTier (users of every gender and tier, every preference), SpecClock  *)
(* (time passes between requests), SpecLoop (after a first call between    *)
(* two users, up to an hour later), SpecStale (the store holds in_call     *)
(* rows whose session or partner is missing), SpecOps (the operator's      *)
(* script scripts/set_dummy_users_online.py runs between requests),        *)
(* SpecStart (POST /sessions/start beside the video endpoints), SpecToken  *)
(* (GET /video/token, its authentication cut at its two SQL statements,    *)
(* beside POST /sessions/start) and SpecEnv (every setting of the Agora    *)
(* credentials).  SpecScreen puts the client screen of user 1              *)
(* (src/frontend_app/screens/Start_Video_Date.py: its flags, its Clock     *)
(* callbacks, its worker and end threads) in front of the server.          *)
(* SpecBuild calls the token builder of                                    *)
(* src/utils/agora_rtc_token.py directly.  Strings and tokens are byte     *)
(* sequences; outside SpecEnv no Agora credential is set and every token   *)
(* is empty.  In the other handlers the presence update of authentication  *)
(* is one step with the load of the user row: the clock does not move      *)
(* while a match or end request is in flight.                              *)
(***************************************************************************)
EXTENDS Integers, Sequences, FiniteSets, TLC

\* ---- bounds of the model ------------------------------------------------
NumUsers == 3
MaxSessions == 2
MaxMatches == 4
MaxEnds == 2
MaxInFlight == 2

\* SpecClock: the clock stops at MaxNow and the server receives at most
\* ClockMatches match and ClockEnds end requests.
MaxNow == 40
ClockMatches == 3
ClockEnds == 1

\* SpecLoop: the server receives at most LoopMatches match requests.
LoopMatches == 3

\* SpecStale: the server receives at most StaleMatches match requests.
StaleMatches == 3

\* SpecStart: the server receives at most StartMatches match and StartEnds
\* end requests.
StartMatches == 2
StartEnds == 1

\* SpecToken: the server receives at most MaxTokens token requests.
MaxTokens == 2

\* SpecEnv: the server receives at most EnvMatches match and EnvEnds end
\* requests.
EnvMatches == 4
EnvEnds == 1

\* SpecScreen: the screen issues at most ScreenRequests match requests.
ScreenRequests == 3

\* ---- program constants (seconds) ----------------------------------------
TouchThrottleSeconds == 30
OnlineWindowSeconds == 120
SearchingFreshSeconds == 35
LoopWindowSeconds == 3600

Users == 1..NumUsers
\* SQL NULL of an id column; the handlers read it as int(x or 0).
None == 0
\* SQL NULL of a DateTime column.
Null == -1

Preferences == {"male", "female", "both"}

\* Values of the column users.gender: the three register accepts and the
\* empty string of a row nobody validated (load_dummy_data).
Genders == {"male", "female", "cross", ""}

\* Values a client can send as VideoMatchIn.preference: the three valid
\* ones, one that differs from a valid one in case and padding, and one
\* that is none of them.
PreferenceInputs == {"male", "female", "both", " Female", "other"}

\* _norm_gender: (value or "").strip().lower(), on the strings above.
NormGender(value) == IF value = " Female" THEN "female" ELSE value

\* video_match, lines 275-277: the preference the request is served with.
NormPreference(preference) ==
    LET pref == NormGender(preference)
    IN  IF pref \in Preferences THEN pref ELSE "both"

VARIABLES
    users,      \* table users: id -> row
    sessions,   \* table chat_sessions: sequence of rows, id = index
    now,        \* datetime.utcnow(), in seconds
    mh,         \* per user: the POST /video/match request in flight
    eh,         \* per user: the POST /video/end request in flight
    resp,       \* per user: the last response of POST /video/match
    nreq,       \* number of requests received so far, per endpoint
    th,         \* per user: the GET /video/token request in flight
    env,        \* os.environ: the Agora settings of the deployment
    tok,        \* the last call of build_rtc_token_with_uid
    scr         \* the StartVideoDateScreen of the device of user Device

vars == <<users, sessions, now, mh, eh, resp, nreq, th, env, tok, scr>>
\* What no handler of /video/match, /video/end and /sessions/start writes.
tokenVars == <<th, env, tok>>

\* ---- rows ---------------------------------------------------------------
\* models.py User: the columns the video core reads or writes.
UserRow(g, sub) ==
    [gender |-> g, is_subscribed |-> sub, last_active_at |-> Null,
     is_on_call |-> FALSE, video_state |-> "idle",
     video_state_updated_at |-> Null,
     video_session_id |-> None, video_partner_id |-> None]

\* models.py ChatSession.
SessionRow(m, a, b, t) ==
    [mode |-> m, user_a_id |-> a, user_b_id |-> b, created_at |-> t,
     ended_at |-> Null, ended_by_id |-> None]

\* ---- the ORM's view of a row -------------------------------------------
\* What a handler's session holds of a User object: the attribute values of
\* its last load, or nothing (loaded = FALSE) once a commit expired them.
Expired ==
    [loaded |-> FALSE, is_on_call |-> FALSE, video_state |-> "idle",
     video_session_id |-> None, video_partner_id |-> None]

Load(row) ==
    [loaded |-> TRUE, is_on_call |-> row.is_on_call,
     video_state |-> row.video_state,
     video_session_id |-> row.video_session_id,
     video_partner_id |-> row.video_partner_id]

\* The value a column has after the flush of one attribute assignment:
\* the UPDATE carries the column unless the assigned value equals the
\* loaded one.
ColumnAfterFlush(snap, loadedValue, assigned, committed) ==
    IF snap.loaded /\ loadedValue = assigned THEN committed ELSE assigned

\* FlushVideoState without lines 85, 93 and 103: the timestamp is left as
\* it was.
FlushVideoStateNoStamp(row, snap, onCall, state, sid, partner) ==
    [row EXCEPT
        !.is_on_call = ColumnAfterFlush(snap, snap.is_on_call, onCall, @),
        !.video_state = ColumnAfterFlush(snap, snap.video_state, state, @),
        !.video_session_id =
            ColumnAfterFlush(snap, snap.video_session_id, sid, @),
        !.video_partner_id =
            ColumnAfterFlush(snap, snap.video_partner_id, partner, @)]

\* Flush of the four state attributes assigned by one of the _video_*
\* helpers, plus video_state_updated_at = utcnow() (always a new value).
FlushVideoState(row, snap, onCall, state, sid, partner) ==
    [row EXCEPT
        !.is_on_call = ColumnAfterFlush(snap, snap.is_on_call, onCall, @),
        !.video_state = ColumnAfterFlush(snap, snap.video_state, state, @),
        !.video_state_updated_at = now,
        !.video_session_id =
            ColumnAfterFlush(snap, snap.video_session_id, sid, @),
        !.video_partner_id =
            ColumnAfterFlush(snap, snap.video_partner_id, partner, @)]

\* _video_reset_state, flushed.
VideoResetState(row, snap) ==
    FlushVideoState(row, snap, FALSE, "idle", None, None)

\* _video_set_searching, flushed.
VideoSetSearching(row, snap) ==
    FlushVideoState(row, snap, FALSE, "searching", None, None)

\* _video_set_in_call, flushed.
VideoSetInCall(row, snap, session_id, partner_id) ==
    FlushVideoState(row, snap, TRUE, "in_call", session_id, partner_id)

\* ---- utils/agora_rtc_token.py --------------------------------------------
\* A str or bytes value is the sequence of its UTF-8 bytes; every string of
\* the model is ASCII.
Space == <<32>>
Version == <<48, 48, 54>>
VideoPrefix == <<118, 105, 100, 101, 111, 95>>

\* str(n) of an int n >= 0.
RECURSIVE Decimal(_)
Decimal(n) ==
    IF n < 10 THEN <<48 + n>> ELSE Decimal(n \div 10) \o <<48 + (n % 10)>>

\* str.strip().
RECURSIVE Strip(_)
Strip(s) ==
    IF s = <<>> THEN s
    ELSE IF Head(s) = 32 THEN Strip(Tail(s))
    ELSE IF s[Len(s)] = 32 THEN Strip(SubSeq(s, 1, Len(s) - 1))
    ELSE s

\* struct.pack("<H", x) and struct.pack("<I", x), for x in range (and
\* below 2^31).
PackUint16(x) == <<x % 256, (x \div 256) % 256>>

PackUint32(x) ==
    <<x % 256, (x \div 256) % 256, (x \div 65536) % 256,
      (x \div 16777216) % 256>>

PackBytes(b) == PackUint16(Len(b)) \o b

\* _pack_string: the argument is already the encoded string.
PackString(str) == PackUint16(Len(str)) \o str

\* a ^ b on 16-bit naturals.
Xor(a, b) ==
    LET bit(i) == (((a \div (2 ^ i)) + (b \div (2 ^ i))) % 2) * (2 ^ i)
    IN  ((bit(0) + bit(1)) + (bit(2) + bit(3)))
            + ((bit(4) + bit(5)) + (bit(6) + bit(7)))
            + ((bit(8) + bit(9)) + (bit(10) + bit(11)))
            + ((bit(12) + bit(13)) + (bit(14) + bit(15)))

\* zlib.crc32: the reflected CRC-32 of polynomial 0xEDB88320, one byte at
\* a time.  A 32-bit value is held as its two 16-bit halves <<high, low>>.
RECURSIVE CrcShift(_, _)
CrcShift(c, n) ==
    IF n = 0 THEN c
    ELSE LET high == c[1] \div 2
             low == (c[2] \div 2) + (c[1] % 2) * 32768
         IN  IF c[2] % 2 = 1
             THEN CrcShift(<<Xor(high, 60856), Xor(low, 33568)>>, n - 1)
             ELSE CrcShift(<<high, low>>, n - 1)

CrcTable == [n \in 0..255 |-> CrcShift(<<0, n>>, 8)]

RECURSIVE CrcUpdate(_, _)
CrcUpdate(c, b) ==
    IF b = <<>> THEN c
    ELSE LET t == CrcTable[Xor(c[2] % 256, Head(b))]
             high == c[1] \div 256
             low == (c[2] \div 256) + (c[1] % 256) * 256
         IN  CrcUpdate(<<Xor(t[1], high), Xor(t[2], low)>>, Tail(b))

Crc32(str) ==
    LET c == CrcUpdate(<<65535, 65535>>, str)
    IN  <<Xor(c[1], 65535), Xor(c[2], 65535)>>

\* struct.pack("<I", x) of a value held as two halves.
PackHalves(x) == PackUint16(x[2]) \o PackUint16(x[1])

\* hmac.new(key, val, hashlib.sha256).digest(): 32 bytes, a fixed function
\* of key and val.  The digest itself is the library's; here it is a
\* polynomial checksum of the two byte strings, modulo a prime.
RECURSIVE PowerMod(_, _)
PowerMod(x, n) ==
    IF n = 0 THEN 1
    ELSE LET half == PowerMod(x, n \div 2)
             square == (half * half) % 32749
         IN  IF n % 2 = 0 THEN square ELSE (square * x) % 32749

RECURSIVE Checksum(_)
Checksum(b) ==
    IF Len(b) = 0 THEN 0
    ELSE IF Len(b) = 1 THEN (b[1] + 1) % 32749
    ELSE LET mid == Len(b) \div 2
             right == SubSeq(b, mid + 1, Len(b))
         IN  (Checksum(SubSeq(b, 1, mid)) * PowerMod(257, Len(right))
                + Checksum(right)) % 32749

DigestSize == 32

HmacSha256(key, val) ==
    LET h == Checksum(PackBytes(key) \o val)
    IN  [i \in 1..DigestSize |-> ((h \div (1 + (i % 7))) + i * h) % 256]

\* base64.b64encode: the character of a 6-bit value, and the encoding of a
\* byte string three bytes at a time, padded with "=".
Base64Char(v) ==
    IF v < 26 THEN 65 + v
    ELSE IF v < 52 THEN 97 + (v - 26)
    ELSE IF v < 62 THEN 48 + (v - 52)
    ELSE IF v = 62 THEN 43 ELSE 47

Base64Encode(b) ==
    LET n == Len(b)
        byte(i) == IF i <= n THEN b[i] ELSE 0
        char(j) ==
            LET g == 3 * ((j - 1) \div 4)
                k == (j - 1) % 4
            IN  IF k = 0 THEN Base64Char(byte(g + 1) \div 4)
                ELSE IF k = 1
                THEN Base64Char((byte(g + 1) % 4) * 16 + byte(g + 2) \div 16)
                ELSE IF k = 2
                THEN IF g + 2 > n THEN 61
                     ELSE Base64Char((byte(g + 2) % 16) * 4
                                        + byte(g + 3) \div 64)
                ELSE IF g + 3 > n THEN 61
                     ELSE Base64Char(byte(g + 3) % 64)
    IN  [j \in 1..(4 * ((n + 2) \div 3)) |-> char(j)]

\* _AccessToken privileges.
PrivJoinChannel == 1
PrivPublishAudio == 2
PrivPublishVideo == 3
PrivPublishData == 4

AppIdLength == 32
TokenLifetimeSeconds == 86400
DefaultTtlSeconds == 3600

\* The outcome of a call: the returned str, or the exception raised.
Returned(token) == [error |-> "", token |-> token]
Raised(error) == [error |-> error, token |-> <<>>]

\* _AccessToken.build, lines 80-83: the message body.  messages is the
\* dict self.messages in insertion order, a sequence of <<key, value>>.
RECURSIVE PackMessages(_)
PackMessages(messages) ==
    IF messages = <<>> THEN <<>>
    ELSE PackUint16(Head(messages)[1]) \o PackUint32(Head(messages)[2])
            \o PackMessages(Tail(messages))

MessageBody(salt, ts, messages) ==
    PackUint32(salt) \o PackUint32(ts) \o PackUint16(Len(messages))
        \o PackMessages(messages)

\* _AccessToken.__init__ and build: salt is random.randint(1, 99999999) and
\* ts is int(time.time()) + 24 * 60 * 60, both taken by __init__.
AccessTokenBuild(app_id, certificate, channel_name, str_uid, messages, salt, ts) ==
    LET id == Strip(app_id)
        key == Strip(certificate)
        channel == Strip(channel_name)
        account == Strip(str_uid)
        msg == MessageBody(salt, ts, messages)
        val == PackString(id) \o PackString(channel) \o PackString(account)
                \o msg
        sig == HmacSha256(key, val)
        content == PackBytes(sig) \o PackHalves(Crc32(channel))
                    \o PackHalves(Crc32(account)) \o PackBytes(msg)
    IN  IF <<>> \in {id, key, channel, account}
        THEN Raised("AgoraTokenError")
        ELSE IF Len(id) # AppIdLength
        THEN Raised("AgoraTokenError")
        ELSE Returned(Version \o id \o Base64Encode(content))

\* Privileges without line 124: the publish privileges are always added.
PrivilegesAlwaysPublish(expire_ts, publish) ==
    <<<<PrivJoinChannel, expire_ts>>, <<PrivPublishAudio, expire_ts>>,
      <<PrivPublishVideo, expire_ts>>, <<PrivPublishData, expire_ts>>>>

\* build_rtc_token_with_uid, lines 122-127: the privileges added.
Privileges(expire_ts, publish) ==
    <<<<PrivJoinChannel, expire_ts>>>>
        \o IF publish
           THEN <<<<PrivPublishAudio, expire_ts>>,
                  <<PrivPublishVideo, expire_ts>>,
                  <<PrivPublishData, expire_ts>>>>
           ELSE <<>>

BuildRtcTokenWithUid(app_id, certificate, channel_name, uid, expire_ts, publish, salt, ts) ==
    IF uid < 0
    THEN Raised("AgoraTokenError")
    ELSE AccessTokenBuild(app_id, certificate, channel_name, Decimal(uid),
                          Privileges(expire_ts, publish), salt, ts)

\* random.randint(1, 99999999), line 66: the values the model draws.
Salts == {1, 99999999}

\* AGORA_APP_ID (or AGORA_ID) and AGORA_APP_CERTIFICATE (or
\* AGORA_CERTIFICATE) of a deployment: unset, or set to a 32-character id, a
\* 31-character id, a 32-character id followed by a blank; and a
\* certificate.
AppId32 == [i \in 1..AppIdLength |-> 97]
AppIds == {<<>>, AppId32, SubSeq(AppId32, 2, AppIdLength), AppId32 \o Space}
Certificates == {<<>>, <<99, 101, 114, 116>>}
Unconfigured == [app_id |-> <<>>, cert |-> <<>>]

\* build_rtc_token_from_env without lines 143-144: missing credentials are
\* passed on to the builder.
BuildRtcTokenFromEnvStrict(settings, channel_name, uid, time, salt) ==
    LET app_id == Strip(settings.app_id)
        cert == Strip(settings.cert)
        expire_ts == time + DefaultTtlSeconds
        built == BuildRtcTokenWithUid(app_id, cert, channel_name, uid,
                                      expire_ts, TRUE, salt,
                                      time + TokenLifetimeSeconds)
    IN  [error |-> built.error, token |-> built.token,
         expire_ts |-> expire_ts]

\* build_rtc_token_from_env: (token, expire_ts), or the exception of the
\* builder.  settings is os.environ, time is int(time.time()).
BuildRtcTokenFromEnv(settings, channel_name, uid, time, salt) ==
    LET app_id == Strip(settings.app_id)
        cert == Strip(settings.cert)
        expire_ts == time + DefaultTtlSeconds
        built == BuildRtcTokenWithUid(app_id, cert, channel_name, uid,
                                      expire_ts, TRUE, salt,
                                      time + TokenLifetimeSeconds)
    IN  IF app_id = <<>> \/ cert = <<>>
        THEN [error |-> "", token |-> <<>>, expire_ts |-> 0]
        ELSE [error |-> built.error, token |-> built.token,
              expire_ts |-> expire_ts]

\* ---- pure helpers -------------------------------------------------------
\* _video_build_payload: channel = f"video_{session.id}".
Channel(session_id) == VideoPrefix \o Decimal(session_id)

\* The response of POST /video/match: the payload of a session,
\* {"ok": True, "match": None}, or the exception that ended the request.
Payload(session_id, me, other, token) ==
    [ok |-> TRUE, session_id |-> session_id, channel |-> Channel(session_id),
     agora_uid |-> me, match |-> other, agora_token |-> token, error |-> ""]

NoMatch ==
    [ok |-> TRUE, session_id |-> None, channel |-> <<>>,
     agora_uid |-> None, match |-> None, agora_token |-> <<>>, error |-> ""]

NoResponse ==
    [ok |-> FALSE, session_id |-> None, channel |-> <<>>,
     agora_uid |-> None, match |-> None, agora_token |-> <<>>, error |-> ""]

ServerError(error) == [NoResponse EXCEPT !.error = error]

\* _video_build_payload of the code, lines 110-132, with the clock and the
\* environment of the call: the token of the caller, then the payload.
VideoBuildPayload(settings, session_id, me, other, time, salt) ==
    LET issued == BuildRtcTokenFromEnv(settings, Channel(session_id), me,
                                       time, salt)
    IN  IF issued.error # ""
        THEN ServerError(issued.error)
        ELSE Payload(session_id, me, other, issued.token)

SessionIds == 1..Len(sessions)

\* The partner of user u in session row s.
OtherOf(s, u) == IF s.user_a_id = u THEN s.user_b_id ELSE s.user_a_id

\* get_current_user: the throttled presence update fires.
TouchDue(row) ==
    \/ row.last_active_at = Null
    \/ now - row.last_active_at >= TouchThrottleSeconds

\* DesiredGender without the free branch of lines 307-311: a free-tier
\* requester is matched with anyone.
DesiredGenderFreeAny(row, pref) ==
    IF row.is_subscribed
    THEN IF pref \in {"male", "female"} THEN pref ELSE "any"
    ELSE "any"

\* DesiredGender without the paid branch of lines 303-306: the preference
\* of a subscribed requester is ignored.
DesiredGenderNoPreference(row, pref) ==
    IF row.is_subscribed
    THEN "any"
    ELSE IF row.gender \in {"male", "female"} THEN row.gender ELSE "any"

\* video_match, desired_gender ("any": None, unconstrained).
DesiredGender(row, pref) ==
    LET me == NormGender(row.gender)
    IN  IF row.is_subscribed
        THEN IF pref \in {"male", "female"} THEN pref ELSE "any"
        ELSE IF me \in {"male", "female"} THEN me ELSE "any"

\* video_match, excluded_ids: partners of the sessions of the last hour.
ExcludedIds(u) ==
    { OtherOf(sessions[i], u) : i \in
        { j \in SessionIds :
            /\ sessions[j].created_at >= now - LoopWindowSeconds
            /\ sessions[j].mode = "video"
            /\ u \in {sessions[j].user_a_id, sessions[j].user_b_id} } }

\* Candidates without the freshness filter of lines 331 and 339-340: a
\* searching row is matched however old it is.
CandidatesAnyAge(u, desired, exclude_ids) ==
    { c \in Users :
        /\ c # u
        /\ users[c].is_on_call = FALSE
        /\ users[c].last_active_at # Null
        /\ users[c].last_active_at >= now - OnlineWindowSeconds
        /\ users[c].video_state = "searching"
        /\ (desired # "any" => users[c].gender = desired)
        /\ c \notin exclude_ids }

\* get_candidate: the rows the query matches.
Candidates(u, desired, exclude_ids) ==
    { c \in Users :
        /\ c # u
        /\ users[c].is_on_call = FALSE
        /\ users[c].last_active_at # Null
        /\ users[c].last_active_at >= now - OnlineWindowSeconds
        /\ users[c].video_state = "searching"
        /\ users[c].video_state_updated_at # Null
        /\ users[c].video_state_updated_at >= now - SearchingFreshSeconds
        /\ (desired # "any" => users[c].gender = desired)
        /\ c \notin exclude_ids }

\* CandidatePool without the loop logic of lines 313-326 and 347-352: the
\* recent partners are candidates like everybody else.
CandidatePoolNoLoop(u, desired) == Candidates(u, desired, {})

\* CandidatePool without lines 350-352: a query that the exclusion set left
\* empty is not tried again.
CandidatePoolNoRetry(u, desired) == Candidates(u, desired, ExcludedIds(u))

\* video_match steps 1 and 2: the pool order_by(random()).first() draws from.
CandidatePool(u, desired) ==
    LET excluded == ExcludedIds(u)
        first == Candidates(u, desired, excluded)
    IN  IF first = {} /\ excluded # {} THEN Candidates(u, desired, {})
        ELSE first

\* ---- initial state ------------------------------------------------------
IdleMatch ==
    [pc |-> "idle", preference |-> "both", snap |-> Expired, other |-> None,
     sid |-> None]

\* The response of GET /video/token, or the exception that ended the
\* request ("404" is HTTPException(404)).
NoToken ==
    [ok |-> FALSE, channel |-> <<>>, agora_uid |-> None,
     agora_token |-> <<>>, error |-> ""]

IdleToken ==
    [pc |-> "idle", session_id |-> None, touch |-> Null, out |-> NoToken]

\* frontend_app/screens/Start_Video_Date.py, StartVideoDateScreen as
\* constructed (lines 21-24, 47-48): no request in flight, no NEXT pending,
\* no session, no timer; no worker thread, no end request on its way.
IdleScreen ==
    [inflight |-> FALSE, pending_next |-> FALSE, session_id |-> 0,
     retry_ev |-> FALSE, soon |-> 0, leaving |-> FALSE, workers |-> <<>>,
     ends |-> {}, skipped |-> {}, issued |-> 0]

\* The token builder not called yet.
NotCalled == [args |-> <<>>, salt |-> None, ts |-> None, out |-> Raised("")]

\* No token request in flight, no Agora setting in the environment.
TokensIdle ==
    /\ th = [u \in Users |-> IdleToken]
    /\ env = Unconfigured
    /\ tok = NotCalled

IdleEnd ==
    [pc |-> "idle", session_id |-> None, snap |-> Expired, found |-> FALSE,
     psnap |-> Expired, ended_by_id |-> None]

Init ==
    /\ users = [u \in Users |-> UserRow("male", FALSE)]
    /\ sessions = <<>>
    /\ now = 0
    /\ mh = [u \in Users |-> IdleMatch]
    /\ resp = [u \in Users |-> NoResponse]
    /\ eh = [u \in Users |-> IdleEnd]
    /\ nreq = [match |-> 0, end |-> 0, token |-> 0]
    /\ TokensIdle
    /\ scr = IdleScreen

\* ---- the server ---------------------------------------------------------
InFlight ==
    Cardinality({u \in Users : mh[u].pc # "idle"})
        + Cardinality({u \in Users : eh[u].pc # "idle"})

\* A request is accepted: a worker is free.
AcceptMatch ==
    /\ nreq.match < MaxMatches
    /\ InFlight < MaxInFlight
    /\ nreq' = [nreq EXCEPT !.match = @ + 1]

AcceptEnd ==
    /\ nreq.end < MaxEnds
    /\ InFlight < MaxInFlight
    /\ nreq' = [nreq EXCEPT !.end = @ + 1]

\* ---- POST /video/match --------------------------------------------------
\* The request body is parsed (VideoMatchIn); Depends(get_current_user):
\* load the caller's row, touch presence.
MatchAccept(u, preference) ==
    /\ mh[u].pc = "idle"
    /\ AcceptMatch
    /\ IF TouchDue(users[u])
       THEN /\ users' = [users EXCEPT ![u].last_active_at = now]
            /\ mh' = [mh EXCEPT ![u] =
                        [IdleMatch EXCEPT !.pc = "expired",
                                          !.preference = preference]]
       ELSE /\ mh' = [mh EXCEPT ![u] =
                        [IdleMatch EXCEPT !.pc = "loaded",
                                          !.preference = preference,
                                          !.snap = Load(users[u])]]
            /\ UNCHANGED users
    /\ UNCHANGED <<sessions, now, eh, resp, tokenVars>>

\* A match request that does not come from the modelled screen.
MatchAuth(u, preference) == MatchAccept(u, preference) /\ UNCHANGED scr

\* Line 282 on an expired object: the attribute access reloads the row.
MatchRefresh(u) ==
    /\ mh[u].pc = "expired"
    /\ mh' = [mh EXCEPT ![u].pc = "loaded", ![u].snap = Load(users[u])]
    /\ UNCHANGED <<users, sessions, now, eh, resp, nreq, tokenVars, scr>>

\* MatchCheck without the early return of lines 285-291: a user already in
\* a call is put back into the queue.
MatchCheckNoRepoll(u) ==
    /\ mh[u].pc = "loaded"
    /\ users' = [users EXCEPT ![u] = VideoSetSearching(@, mh[u].snap)]
    /\ mh' = [mh EXCEPT ![u].pc = "query", ![u].snap = Expired]
    /\ UNCHANGED <<sessions, now, eh, resp, nreq, tokenVars, scr>>

\* MatchCheck without the reset of lines 293-294: a stale in_call row is
\* left as it is.
MatchCheckNoReset(u) ==
    /\ mh[u].pc = "loaded"
    /\ LET snap == mh[u].snap
           current_sid == snap.video_session_id
           in_call == snap.video_state = "in_call" /\ current_sid > 0
           found == /\ in_call
                    /\ current_sid \in SessionIds
                    /\ sessions[current_sid].mode = "video"
                    /\ OtherOf(sessions[current_sid], u) \in Users
       IN  IF found
           THEN /\ \E salt \in Salts :
                    resp' = [resp EXCEPT ![u] =
                        VideoBuildPayload(env, current_sid, u,
                            OtherOf(sessions[current_sid], u), now, salt)]
                /\ mh' = [mh EXCEPT ![u] = IdleMatch]
                /\ UNCHANGED users
           ELSE IF in_call
           THEN /\ mh' = [mh EXCEPT ![u].pc = "stale"]
                /\ UNCHANGED <<users, resp>>
           ELSE /\ users' = [users EXCEPT ![u] = VideoSetSearching(@, snap)]
                /\ mh' = [mh EXCEPT ![u].pc = "query", ![u].snap = Expired]
                /\ UNCHANGED resp
    /\ UNCHANGED <<sessions, now, eh, nreq, tokenVars, scr>>

\* Lines 279-298: the re-poll of a user already in a call returns the
\* assigned session (the session row is found, db.get finds the partner);
\* a stale in_call row is reset and committed (lines 293-294), which
\* expires the object; otherwise the caller is marked searching.
MatchCheck(u) ==
    /\ mh[u].pc = "loaded"
    /\ LET snap == mh[u].snap
           current_sid == snap.video_session_id
           in_call == snap.video_state = "in_call" /\ current_sid > 0
           found == /\ in_call
                    /\ current_sid \in SessionIds
                    /\ sessions[current_sid].mode = "video"
                    /\ OtherOf(sessions[current_sid], u) \in Users
       IN  IF found
           THEN /\ \E salt \in Salts :
                    resp' = [resp EXCEPT ![u] =
                        VideoBuildPayload(env, current_sid, u,
                            OtherOf(sessions[current_sid], u), now, salt)]
                /\ mh' = [mh EXCEPT ![u] = IdleMatch]
                /\ UNCHANGED users
           ELSE IF in_call
           THEN /\ users' = [users EXCEPT ![u] = VideoResetState(@, snap)]
                /\ mh' = [mh EXCEPT ![u].pc = "stale", ![u].snap = Expired]
                /\ UNCHANGED resp
           ELSE /\ users' = [users EXCEPT ![u] = VideoSetSearching(@, snap)]
                /\ mh' = [mh EXCEPT ![u].pc = "query", ![u].snap = Expired]
                /\ UNCHANGED resp
    /\ UNCHANGED <<sessions, now, eh, nreq, tokenVars, scr>>

\* Lines 296-298 after the reset of a stale row: the caller is marked
\* searching, every column written since the object is expired.
MatchSearch(u) ==
    /\ mh[u].pc = "stale"
    /\ users' = [users EXCEPT ![u] = VideoSetSearching(@, mh[u].snap)]
    /\ mh' = [mh EXCEPT ![u].pc = "query", ![u].snap = Expired]
    /\ UNCHANGED <<sessions, now, eh, resp, nreq, tokenVars, scr>>

\* Lines 300-360: desired gender, loop exclusion, candidate query.
MatchQuery(u) ==
    /\ mh[u].pc = "query"
    /\ LET pref == NormPreference(mh[u].preference)
           pool == CandidatePool(u, DesiredGender(users[u], pref))
       IN  IF pool = {}
           THEN /\ resp' = [resp EXCEPT ![u] = NoMatch]
                /\ mh' = [mh EXCEPT ![u] = IdleMatch]
           ELSE /\ \E other \in pool :
                     mh' = [mh EXCEPT ![u].pc = "create", ![u].other = other]
                /\ UNCHANGED resp
    /\ UNCHANGED <<users, sessions, now, eh, nreq, tokenVars, scr>>

\* Lines 362-365: the session row is inserted and committed.
MatchCreate(u) ==
    /\ mh[u].pc = "create"
    /\ Len(sessions) < MaxSessions
    /\ sessions' = Append(sessions, SessionRow("video", u, mh[u].other, now))
    /\ mh' = [mh EXCEPT ![u].pc = "claim", ![u].sid = Len(sessions) + 1]
    /\ UNCHANGED <<users, now, eh, resp, nreq, tokenVars, scr>>

\* Line 368, argument other.id: the commit expired `other`, the access
\* reloads its row.
MatchLoadOther(u) ==
    /\ mh[u].pc = "claim"
    /\ mh' = [mh EXCEPT ![u].pc = "commit",
                        ![u].snap = Load(users[mh[u].other])]
    /\ UNCHANGED <<users, sessions, now, eh, resp, nreq, tokenVars, scr>>

\* Lines 368-372: both rows go to in_call, commit, payload.  An exception
\* of the payload builder ends the request after the commit.
MatchCommit(u) ==
    /\ mh[u].pc = "commit"
    /\ LET other == mh[u].other
           sid == mh[u].sid
       IN  /\ users' = [users EXCEPT
                 ![u] = VideoSetInCall(@, Expired, sid, other),
                 ![other] = VideoSetInCall(@, mh[u].snap, sid, u)]
           /\ \E salt \in Salts :
                 resp' = [resp EXCEPT ![u] =
                     VideoBuildPayload(env, sid, u, other, now, salt)]
    /\ mh' = [mh EXCEPT ![u] = IdleMatch]
    /\ UNCHANGED <<sessions, now, eh, nreq, tokenVars, scr>>

\* ---- POST /video/end ----------------------------------------------------
\* Depends(get_current_user), and sid = int(payload.session_id or 0): an
\* absent, zero or negative session_id is 0.
EndAccept(u, session_id) ==
    /\ eh[u].pc = "idle"
    /\ AcceptEnd
    /\ LET pc == IF session_id > 0 THEN "lookup" ELSE "commit"
       IN  IF TouchDue(users[u])
           THEN /\ users' = [users EXCEPT ![u].last_active_at = now]
                /\ eh' = [eh EXCEPT ![u] =
                     [IdleEnd EXCEPT !.pc = pc, !.session_id = session_id]]
           ELSE /\ eh' = [eh EXCEPT ![u] =
                     [IdleEnd EXCEPT !.pc = pc, !.session_id = session_id,
                                     !.snap = Load(users[u])]]
                /\ UNCHANGED users
    /\ UNCHANGED <<sessions, now, mh, resp, tokenVars>>

\* An end request that does not come from the modelled screen.
EndAuth(u, session_id) == EndAccept(u, session_id) /\ UNCHANGED scr

\* Lines 433-455: the session query (its user.id reloads an expired caller)
\* and, when it finds the session, the load of the two participants: the
\* caller is the object already in the identity map, the partner is read.
EndLookup(u) ==
    /\ eh[u].pc = "lookup"
    /\ LET sid == eh[u].session_id
           snap == IF eh[u].snap.loaded THEN eh[u].snap ELSE Load(users[u])
           found == /\ sid \in SessionIds
                    /\ sessions[sid].mode = "video"
                    /\ u \in {sessions[sid].user_a_id, sessions[sid].user_b_id}
       IN  eh' = [eh EXCEPT ![u] =
                 IF found
                 THEN [@ EXCEPT !.pc = "commit", !.snap = snap,
                          !.found = TRUE,
                          !.psnap = Load(users[OtherOf(sessions[sid], u)]),
                          !.ended_by_id = sessions[sid].ended_by_id]
                 ELSE [@ EXCEPT !.pc = "commit", !.snap = snap]]
    /\ UNCHANGED <<users, sessions, now, mh, resp, nreq, tokenVars, scr>>

\* Lines 443-462: stamp the session and reset both participants, or the
\* fallback that resets the caller only; commit.
EndCommit(u) ==
    /\ eh[u].pc = "commit"
    /\ LET sid == eh[u].session_id
       IN  IF eh[u].found
           THEN LET p == OtherOf(sessions[sid], u)
                IN  /\ sessions' = [sessions EXCEPT
                          ![sid].ended_at = now,
                          ![sid].ended_by_id =
                              IF eh[u].ended_by_id = u THEN @ ELSE u]
                    /\ users' = [c \in Users |->
                          IF c = u THEN VideoResetState(users[c], eh[u].snap)
                          ELSE IF c = p
                               THEN VideoResetState(users[c], eh[u].psnap)
                               ELSE users[c]]
           ELSE /\ users' = [users EXCEPT
                     ![u] = VideoResetState(@, eh[u].snap)]
                /\ UNCHANGED sessions
    /\ eh' = [eh EXCEPT ![u] = IdleEnd]
    /\ UNCHANGED <<now, mh, resp, nreq, tokenVars, scr>>

Next ==
    \/ \E u \in Users :
        \/ MatchAuth(u, "both")
        \/ MatchRefresh(u)
        \/ MatchCheck(u)
        \/ MatchQuery(u)
        \/ MatchCreate(u)
        \/ MatchLoadOther(u)
        \/ MatchCommit(u)
        \/ \E session_id \in 0..MaxSessions : EndAuth(u, session_id)
        \/ EndLookup(u)
        \/ EndCommit(u)

Spec == Init /\ [][Next]_vars

\* ---- users of every gender and tier ---------------------------------------
\* The rows of the table users range over every gender and both tiers, and
\* clients send every preference; clients only call POST /video/match and
\* the server takes one request at a time.
InitTier ==
    /\ users \in [Users -> {UserRow(g, sub) : g \in Genders, sub \in BOOLEAN}]
    /\ sessions = <<>>
    /\ now = 0
    /\ mh = [u \in Users |-> IdleMatch]
    /\ resp = [u \in Users |-> NoResponse]
    /\ eh = [u \in Users |-> IdleEnd]
    /\ nreq = [match |-> 0, end |-> 0, token |-> 0]
    /\ TokensIdle
    /\ scr = IdleScreen

NextTier ==
    \/ \E u \in Users :
        \/ \E preference \in PreferenceInputs :
              InFlight = 0 /\ MatchAuth(u, preference)
        \/ MatchRefresh(u)
        \/ MatchCheck(u)
        \/ MatchQuery(u)
        \/ MatchCreate(u)
        \/ MatchLoadOther(u)
        \/ MatchCommit(u)

SpecTier == InitTier /\ [][NextTier]_vars

\* ---- the clock ---------------------------------------------------------------
\* Time passes while no request is in flight, in steps that reach the
\* presence throttle (30 s) and both sides of the freshness window (35 s,
\* 40 s): a request takes no time, the requests in flight at one moment
\* interleave as under Spec.
TickSteps == {5, 30}

Tick(d) ==
    /\ InFlight = 0
    /\ now + d <= MaxNow
    /\ now' = now + d
    /\ UNCHANGED <<users, sessions, mh, eh, resp, nreq, tokenVars, scr>>

NextClock ==
    \/ \E d \in TickSteps : Tick(d)
    \/ \E u \in Users :
        \/ nreq.match < ClockMatches /\ MatchAuth(u, "both")
        \/ MatchRefresh(u)
        \/ MatchCheck(u)
        \/ MatchQuery(u)
        \/ MatchCreate(u)
        \/ MatchLoadOther(u)
        \/ MatchCommit(u)
        \/ \E session_id \in 0..MaxSessions :
              nreq.end < ClockEnds /\ EndAuth(u, session_id)
        \/ EndLookup(u)
        \/ EndCommit(u)

SpecClock == Init /\ [][NextClock]_vars

\* ---- after a first call ------------------------------------------------------
\* Users 1 and 2 have been paired in session 1 at time 0 and the call was
\* ended at once by user 1; it is now LoopWindowSeconds later at most, or
\* one second more.  Clients only call POST /video/match.
LoopStarts == {0, LoopWindowSeconds, LoopWindowSeconds + 1}

InitLoop ==
    /\ users = [u \in Users |->
          IF u \in {1, 2}
          THEN [UserRow("male", FALSE) EXCEPT !.last_active_at = 0,
                                              !.video_state_updated_at = 0]
          ELSE UserRow("male", FALSE)]
    /\ sessions = << [SessionRow("video", 1, 2, 0) EXCEPT
                          !.ended_at = 0, !.ended_by_id = 1] >>
    /\ now \in LoopStarts
    /\ mh = [u \in Users |-> IdleMatch]
    /\ resp = [u \in Users |-> NoResponse]
    /\ eh = [u \in Users |-> IdleEnd]
    /\ nreq = [match |-> 0, end |-> 0, token |-> 0]
    /\ TokensIdle
    /\ scr = IdleScreen

NextLoop ==
    \/ \E u \in Users :
        \/ nreq.match < LoopMatches /\ MatchAuth(u, "both")
        \/ MatchRefresh(u)
        \/ MatchCheck(u)
        \/ MatchQuery(u)
        \/ MatchCreate(u)
        \/ MatchLoadOther(u)
        \/ MatchCommit(u)

SpecLoop == InitLoop /\ [][NextLoop]_vars

\* ---- a store with stale rows ----------------------------------------------
\* users.video_session_id is a plain Integer column (models.py:49), and
\* the store outlives the server: the server can start on a store in
\* which a row is in_call with a video_session_id that no video session
\* row carries, or whose session names a partner without a row.
NoUser == NumUsers + 1

StaleRow(session_id, partner_id) ==
    [UserRow("male", FALSE) EXCEPT
        !.last_active_at = 0, !.is_on_call = TRUE, !.video_state = "in_call",
        !.video_state_updated_at = 0, !.video_session_id = session_id,
        !.video_partner_id = partner_id]

InitStale ==
    /\ \/ /\ sessions \in {<<>>, <<SessionRow("text", 1, 2, 0)>>}
          /\ \E stale \in {{1}, {1, 2}} :
                users = [u \in Users |->
                    IF u \in stale THEN StaleRow(1, 3 - u)
                    ELSE UserRow("male", FALSE)]
       \/ /\ sessions = <<SessionRow("video", 1, NoUser, 0)>>
          /\ users = [u \in Users |->
                IF u = 1 THEN StaleRow(1, NoUser)
                ELSE UserRow("male", FALSE)]
    /\ now = 0
    /\ mh = [u \in Users |-> IdleMatch]
    /\ resp = [u \in Users |-> NoResponse]
    /\ eh = [u \in Users |-> IdleEnd]
    /\ nreq = [match |-> 0, end |-> 0, token |-> 0]
    /\ TokensIdle
    /\ scr = IdleScreen

NextStale ==
    \/ \E u \in Users :
        \/ nreq.match < StaleMatches /\ MatchAuth(u, "both")
        \/ MatchRefresh(u)
        \/ MatchCheck(u)
        \/ MatchSearch(u)
        \/ MatchQuery(u)
        \/ MatchCreate(u)
        \/ MatchLoadOther(u)
        \/ MatchCommit(u)

SpecStale == InitStale /\ [][NextStale]_vars

\* ---- the operator's script ---------------------------------------------------
\* The rows whose username is listed in scripts/dummy_users.yml.
DummyUsers == {NumUsers}

\* scripts/set_dummy_users_online.py with also_clear_on_call left at True:
\* every dummy row gets last_active_at = now and is_on_call = False (a run
\* that changes no row is no step).
SetDummyUsersOnline ==
    /\ InFlight = 0
    /\ users' = [c \in Users |->
          IF c \in DummyUsers
          THEN [users[c] EXCEPT !.last_active_at = now, !.is_on_call = FALSE]
          ELSE users[c]]
    /\ users' # users
    /\ UNCHANGED <<sessions, now, mh, eh, resp, nreq, tokenVars, scr>>

\* The server takes one request at a time; the operator runs the script
\* between requests.
NextOps ==
    \/ SetDummyUsersOnline
    \/ \E u \in Users :
        \/ InFlight = 0 /\ MatchAuth(u, "both")
        \/ MatchRefresh(u)
        \/ MatchCheck(u)
        \/ MatchQuery(u)
        \/ MatchCreate(u)
        \/ MatchLoadOther(u)
        \/ MatchCommit(u)
        \/ \E session_id \in 0..MaxSessions :
              InFlight = 0 /\ EndAuth(u, session_id)
        \/ EndLookup(u)
        \/ EndCommit(u)

SpecOps == Init /\ [][NextOps]_vars

\* ---- POST /sessions/start ----------------------------------------------------
\* Values a client can send as StartSessionIn.mode: the three valid ones,
\* one that differs from a valid one in case and padding, and one that is
\* none of them.
ModeInputs == {"text", "voice", "video", " Video", "call"}

\* Line 230: (payload.mode or "").strip().lower(), on the strings above.
NormMode(mode) == IF mode = " Video" THEN "video" ELSE mode

\* start_session, with the presence update of get_current_user: the
\* request is rejected (400, 404, 403) or inserts a session row between
\* the caller and the target.  target_user_id 0 is the id of no user.
StartSession(u, target_user_id, mode) ==
    /\ Len(sessions) < MaxSessions
    /\ users' = IF TouchDue(users[u])
                THEN [users EXCEPT ![u].last_active_at = now]
                ELSE users
    /\ LET m == NormMode(mode)
           accepted ==
               /\ m \in {"text", "voice", "video"}
               /\ target_user_id \in Users \ {u}
               /\ (m \in {"text", "voice"} => users[u].is_subscribed)
       IN  sessions' = IF accepted
                       THEN Append(sessions,
                                SessionRow(m, u, target_user_id, now))
                       ELSE sessions
    /\ UNCHANGED <<now, mh, eh, resp, nreq, tokenVars, scr>>

\* Users of both tiers; the server takes one request at a time.
InitStart ==
    /\ users \in [Users -> {UserRow("male", sub) : sub \in BOOLEAN}]
    /\ sessions = <<>>
    /\ now = 0
    /\ mh = [u \in Users |-> IdleMatch]
    /\ resp = [u \in Users |-> NoResponse]
    /\ eh = [u \in Users |-> IdleEnd]
    /\ nreq = [match |-> 0, end |-> 0, token |-> 0]
    /\ TokensIdle
    /\ scr = IdleScreen

NextStart ==
    \/ \E u \in Users :
        \/ \E target_user_id \in 0..NumUsers, mode \in ModeInputs :
              InFlight = 0 /\ StartSession(u, target_user_id, mode)
        \/ InFlight = 0 /\ nreq.match < StartMatches /\ MatchAuth(u, "both")
        \/ MatchRefresh(u)
        \/ MatchCheck(u)
        \/ MatchQuery(u)
        \/ MatchCreate(u)
        \/ MatchLoadOther(u)
        \/ MatchCommit(u)
        \/ \E session_id \in 0..MaxSessions :
              InFlight = 0 /\ nreq.end < StartEnds /\ EndAuth(u, session_id)
        \/ EndLookup(u)
        \/ EndCommit(u)

SpecStart == InitStart /\ [][NextStart]_vars

\* ---- GET /video/token ---------------------------------------------------
\* The response of a served request.
VideoToken(settings, session_id, me, time, salt) ==
    LET issued == BuildRtcTokenFromEnv(settings, Channel(session_id), me,
                                       time, salt)
    IN  IF issued.error # ""
        THEN [NoToken EXCEPT !.error = issued.error]
        ELSE [ok |-> TRUE, channel |-> Channel(session_id),
              agora_uid |-> me, agora_token |-> issued.token, error |-> ""]

\* Depends(get_current_user), auth.py lines 59-66: db.get loads the row,
\* and a presence update that is due is assigned to the loaded object.
VideoTokenAuth(u, session_id) ==
    /\ th[u].pc = "idle"
    /\ nreq.token < MaxTokens
    /\ nreq' = [nreq EXCEPT !.token = @ + 1]
    /\ th' = [th EXCEPT ![u] =
            IF TouchDue(users[u])
            THEN [IdleToken EXCEPT !.pc = "touch", !.session_id = session_id,
                                   !.touch = now]
            ELSE [IdleToken EXCEPT !.pc = "query",
                                   !.session_id = session_id]]
    /\ UNCHANGED <<users, sessions, now, mh, eh, resp, env, tok, scr>>

\* auth.py lines 67-69: the presence update is committed.
VideoTokenTouch(u) ==
    /\ th[u].pc = "touch"
    /\ users' = [users EXCEPT ![u].last_active_at = th[u].touch]
    /\ th' = [th EXCEPT ![u].pc = "query"]
    /\ UNCHANGED <<sessions, now, mh, eh, resp, nreq, env, tok, scr>>

\* VideoTokenQuery without line 391: the caller need not take part in the
\* session.
VideoTokenQueryAnyCaller(u) ==
    /\ th[u].pc = "query"
    /\ LET session_id == th[u].session_id
           sess == /\ session_id \in SessionIds
                   /\ sessions[session_id].mode = "video"
       IN  \E salt \in Salts :
             th' = [th EXCEPT ![u] =
                 [IdleToken EXCEPT !.out =
                     IF sess
                     THEN VideoToken(env, session_id, u, now, salt)
                     ELSE [NoToken EXCEPT !.error = "404"]]]
    /\ UNCHANGED <<users, sessions, now, mh, eh, resp, nreq, env, tok, scr>>

\* video_token, lines 386-416: the session query, then the token.
VideoTokenQuery(u) ==
    /\ th[u].pc = "query"
    /\ LET session_id == th[u].session_id
           sess == /\ session_id \in SessionIds
                   /\ sessions[session_id].mode = "video"
                   /\ u \in {sessions[session_id].user_a_id,
                             sessions[session_id].user_b_id}
       IN  \E salt \in Salts :
             th' = [th EXCEPT ![u] =
                 [IdleToken EXCEPT !.out =
                     IF sess
                     THEN VideoToken(env, session_id, u, now, salt)
                     ELSE [NoToken EXCEPT !.error = "404"]]]
    /\ UNCHANGED <<users, sessions, now, mh, eh, resp, nreq, env, tok, scr>>

\* Token requests run beside the requests of /sessions/start, and the clock
\* moves while they are in flight.  User 1 has subscribed.
InitToken ==
    /\ users = [u \in Users |-> UserRow("male", u = 1)]
    /\ sessions = <<>>
    /\ now = 0
    /\ mh = [u \in Users |-> IdleMatch]
    /\ resp = [u \in Users |-> NoResponse]
    /\ eh = [u \in Users |-> IdleEnd]
    /\ nreq = [match |-> 0, end |-> 0, token |-> 0]
    /\ TokensIdle
    /\ scr = IdleScreen

NextToken ==
    \/ Tick(TouchThrottleSeconds)
    \/ \E u \in Users :
        \/ \E target_user_id \in Users, mode \in {"text", "video"} :
              StartSession(u, target_user_id, mode)
        \/ \E session_id \in 0..MaxSessions : VideoTokenAuth(u, session_id)
        \/ VideoTokenTouch(u)
        \/ VideoTokenQuery(u)

SpecToken == InitToken /\ [][NextToken]_vars

\* ---- deployments ---------------------------------------------------------
\* The Agora settings are those of any deployment; requests are served one
\* after the other.
InitEnv ==
    /\ users = [u \in Users |-> UserRow("male", FALSE)]
    /\ sessions = <<>>
    /\ now = 0
    /\ mh = [u \in Users |-> IdleMatch]
    /\ resp = [u \in Users |-> NoResponse]
    /\ eh = [u \in Users |-> IdleEnd]
    /\ nreq = [match |-> 0, end |-> 0, token |-> 0]
    /\ th = [u \in Users |-> IdleToken]
    /\ env \in [app_id : AppIds, cert : Certificates]
    /\ tok = NotCalled
    /\ scr = IdleScreen

NextEnv ==
    \/ \E u \in Users :
        \/ InFlight = 0 /\ nreq.match < EnvMatches /\ MatchAuth(u, "both")
        \/ MatchRefresh(u)
        \/ MatchCheck(u)
        \/ MatchQuery(u)
        \/ MatchCreate(u)
        \/ MatchLoadOther(u)
        \/ MatchCommit(u)
        \/ \E session_id \in 0..MaxSessions :
              InFlight = 0 /\ nreq.end < EnvEnds /\ EndAuth(u, session_id)
        \/ EndLookup(u)
        \/ EndCommit(u)

SpecEnv == InitEnv /\ [][NextEnv]_vars

\* ---- the token builder, called directly ----------------------------------
\* The arguments of the calls.
ChannelInputs == {<<>>, Channel(1)}
UidInputs == {-1, 0, 2}
ExpireInputs == {DefaultTtlSeconds, TokenLifetimeSeconds}

\* One call of build_rtc_token_with_uid: tok keeps the arguments, the salt
\* and ts that _AccessToken.__init__ took, and the outcome.
BuildToken(app_id, app_certificate, channel_name, uid, expire_ts, publish) ==
    /\ \E salt \in Salts :
         tok' = [args |-> <<app_id, app_certificate, channel_name, uid,
                           expire_ts, publish>>,
                 salt |-> salt,
                 ts |-> now + TokenLifetimeSeconds,
                 out |-> BuildRtcTokenWithUid(app_id, app_certificate,
                            channel_name, uid, expire_ts, publish, salt,
                            now + TokenLifetimeSeconds)]
    /\ UNCHANGED <<users, sessions, now, mh, eh, resp, nreq, th, env, scr>>

NextBuild ==
    \/ Tick(TouchThrottleSeconds)
    \/ \E app_id \in AppIds, app_certificate \in Certificates,
          channel_name \in ChannelInputs, uid \in UidInputs,
          expire_ts \in ExpireInputs, publish \in BOOLEAN :
            BuildToken(app_id, app_certificate, channel_name, uid,
                       expire_ts, publish)

SpecBuild == Init /\ [][NextBuild]_vars

\* ---- frontend_app/screens/Start_Video_Date.py ------------------------------
\* The user signed in on the device that shows the screen.
Device == 1

\* _is_online of match_routes.py, lines 70-76.
IsOnline(row) ==
    /\ row.last_active_at # Null
    /\ now - row.last_active_at <= OnlineWindowSeconds

\* A worker thread of _request_match_once, started: st is "sent" (the
\* request is on its way), "server" (the handler runs), "received" (the
\* response is parsed, apply is scheduled), "failed" (ApiError, apply_err
\* is scheduled) or "lost" (the thread ended with another exception).
NewWorker == [st |-> "sent", new_sid |-> 0, has_match |-> FALSE]

\* _request_match_once without the guard of lines 236-237.
RequestMatchOnceUnguarded(s) ==
    [s EXCEPT !.inflight = TRUE, !.workers = Append(@, NewWorker),
              !.issued = @ + 1]

\* _request_match_once, lines 235-238 and 291, on the screen state s.
RequestMatchOnce(s) ==
    IF s.inflight
    THEN s
    ELSE [s EXCEPT !.inflight = TRUE, !.workers = Append(@, NewWorker),
                   !.issued = @ + 1]

\* The screen may still issue a request.
CanRequest == scr.issued < ScreenRequests

ServerVars == <<users, sessions, now, mh, eh, resp, nreq, tokenVars>>

\* start_search, lines 215-221 (retry and on_enter call it): the retry
\* timer is cancelled, a request is made.
StartSearch ==
    /\ CanRequest
    /\ scr' = RequestMatchOnce([scr EXCEPT !.retry_ev = FALSE])
    /\ UNCHANGED ServerVars

\* The timer of _schedule_retry fires (line 233).
RetryFires ==
    /\ scr.retry_ev
    /\ CanRequest
    /\ scr' = RequestMatchOnce([scr EXCEPT !.retry_ev = FALSE])
    /\ UNCHANGED ServerVars

\* A Clock.schedule_once(_request_match_once, 0) of lines 260, 267 and 285
\* fires.
SoonFires ==
    /\ scr.soon > 0
    /\ CanRequest
    /\ scr' = RequestMatchOnce([scr EXCEPT !.soon = @ - 1])
    /\ UNCHANGED ServerVars

\* next_call, lines 302-326: while a request is in flight NEXT is recorded;
\* otherwise the current session is ended on a thread of its own
\* (_end_backend_video_call, lines 293-300), the session context is reset
\* and a request is made.
NextCall ==
    /\ CanRequest
    /\ IF scr.inflight
       THEN scr' = [scr EXCEPT !.pending_next = TRUE, !.retry_ev = FALSE]
       ELSE LET sid == scr.session_id
                ended == IF sid > 0 THEN {sid} ELSE {}
            IN  scr' = RequestMatchOnce(
                      [scr EXCEPT !.ends = @ \cup ended,
                                  !.skipped = @ \cup ended,
                                  !.session_id = 0, !.retry_ev = FALSE])
    /\ UNCHANGED ServerVars

\* on_leave, lines 103-109, once the screen manager has switched to the
\* video screen (line 276).
OnLeave ==
    /\ scr.leaving
    /\ scr' = [scr EXCEPT !.leaving = FALSE, !.retry_ev = FALSE,
                          !.session_id = 0]
    /\ UNCHANGED ServerVars

\* api_video_match of worker i reaches the server (line 242): the
\* handler of POST /video/match starts.
WorkerSend(i) ==
    /\ i \in DOMAIN scr.workers
    /\ scr.workers[i].st = "sent"
    /\ \A j \in DOMAIN scr.workers : scr.workers[j].st # "server"
    /\ MatchAccept(Device, "both")
    /\ scr' = [scr EXCEPT !.workers[i].st = "server"]

\* The server answers worker i with a status of 300 or more (as
\* get_current_user does for a token it does not accept, auth.py:45-58):
\* _raise raises ApiError.
WorkerReject(i) ==
    /\ i \in DOMAIN scr.workers
    /\ scr.workers[i].st = "sent"
    /\ scr' = [scr EXCEPT !.workers[i].st = "failed"]
    /\ UNCHANGED ServerVars

\* requests.post of worker i raises (no connection, or no answer within
\* the timeout of frontend_app/utils/api.py:201): the exception is not an
\* ApiError, the thread ends and nothing is scheduled.
WorkerLost(i) ==
    /\ i \in DOMAIN scr.workers
    /\ scr.workers[i].st \in {"sent", "server"}
    /\ scr' = [scr EXCEPT !.workers[i].st = "lost"]
    /\ UNCHANGED ServerVars

\* Worker i has its response (lines 242-247, 278-289): an exception of the
\* handler is a status 500 and ApiError; otherwise new_sid is session.id
\* and has_match is match.is_online, which the handler computed at the
\* same instant of the clock.
WorkerReceive(i) ==
    /\ i \in DOMAIN scr.workers
    /\ scr.workers[i].st = "server"
    /\ mh[Device].pc = "idle"
    /\ LET data == resp[Device]
       IN  scr' = [scr EXCEPT !.workers[i] =
                 IF data.error # ""
                 THEN [NewWorker EXCEPT !.st = "failed"]
                 ELSE [st |-> "received",
                       new_sid |-> IF data.session_id = None THEN 0
                                   ELSE data.session_id,
                       has_match |-> /\ data.match \in Users
                                     /\ IsOnline(users[data.match])]]
    /\ UNCHANGED ServerVars

\* Sequence q without its element i.
Without(q, i) == SubSeq(q, 1, i - 1) \o SubSeq(q, i + 1, Len(q))

\* apply of worker i, lines 249-276.
Apply(i) ==
    /\ i \in DOMAIN scr.workers
    /\ scr.workers[i].st = "received"
    /\ LET w == scr.workers[i]
           s == [scr EXCEPT !.inflight = FALSE,
                            !.workers = Without(@, i)]
       IN  scr' =
             IF scr.pending_next
             THEN [s EXCEPT !.pending_next = FALSE,
                            !.ends = IF w.new_sid > 0
                                     THEN @ \cup {w.new_sid} ELSE @,
                            !.soon = @ + 1]
             ELSE IF ~w.has_match
             THEN [s EXCEPT !.retry_ev = TRUE]
             ELSE [s EXCEPT !.session_id = w.new_sid, !.leaving = TRUE]
    /\ UNCHANGED ServerVars

\* apply_err of worker i, lines 280-287.
ApplyErr(i) ==
    /\ i \in DOMAIN scr.workers
    /\ scr.workers[i].st = "failed"
    /\ LET s == [scr EXCEPT !.inflight = FALSE,
                            !.workers = Without(@, i)]
       IN  scr' =
             IF scr.pending_next
             THEN [s EXCEPT !.pending_next = FALSE, !.soon = @ + 1]
             ELSE [s EXCEPT !.retry_ev = TRUE]
    /\ UNCHANGED ServerVars

\* api_video_end(session_id) of a thread of _end_backend_video_call reaches
\* the server (line 296); its response is not looked at.
EndSend(session_id) ==
    /\ session_id \in scr.ends
    /\ EndAccept(Device, session_id)
    /\ scr' = [scr EXCEPT !.ends = @ \ {session_id}]

\* The device of user Device shows the screen; the other users send match
\* requests of their own.
NextScreen ==
    \/ StartSearch
    \/ RetryFires
    \/ SoonFires
    \/ NextCall
    \/ OnLeave
    \/ \E i \in 1..ScreenRequests :
        \/ WorkerSend(i)
        \/ WorkerReject(i)
        \/ WorkerLost(i)
        \/ WorkerReceive(i)
        \/ Apply(i)
        \/ ApplyErr(i)
    \/ \E session_id \in 1..MaxSessions : EndSend(session_id)
    \/ \E u \in Users \ {Device} : MatchAuth(u, "both")
    \/ \E u \in Users :
        \/ MatchRefresh(u)
        \/ MatchCheck(u)
        \/ MatchQuery(u)
        \/ MatchCreate(u)
        \/ MatchLoadOther(u)
        \/ MatchCommit(u)
        \/ EndLookup(u)
        \/ EndCommit(u)

SpecScreen == Init /\ [][NextScreen]_vars

\* ---- properties ---------------------------------------------------------
IsPayload(r) == r.ok /\ r.session_id # None

\* Session id s names a video session that has not been ended.
Live(s) ==
    /\ s \in SessionIds
    /\ sessions[s].mode = "video"
    /\ sessions[s].ended_at = Null

Participants(s) == {sessions[s].user_a_id, sessions[s].user_b_id}

\* The video state of a row that the claims speak about.
VideoFields(row) ==
    <<row.video_state, row.video_session_id, row.video_partner_id>>

\* The match() call that created session s has finished.
Finished(s) ==
    \A u \in Users : ~(mh[u].pc \in {"claim", "commit"} /\ mh[u].sid = s)

\* C1: with match() calls only, two calls of different requesters never both
\* end with the same candidate as the partner of the session they created.
C1_AtMostOneClaimsCandidate ==
    nreq.end = 0 =>
        \A a, b \in Users :
            (/\ a # b
             /\ IsPayload(resp[a]) /\ IsPayload(resp[b])
             /\ sessions[resp[a].session_id].user_a_id = a
             /\ sessions[resp[b].session_id].user_a_id = b)
            => resp[a].match # resp[b].match

\* C2: no user is a participant of two different unended video sessions.
C2_OneActiveSessionPerUser ==
    \A u \in Users : \A s, t \in SessionIds :
        (Live(s) /\ Live(t) /\ u \in Participants(s) /\ u \in Participants(t))
        => s = t

\* C3: the partner of a user in a call is in a call with that user, in the
\* same session.
C3_Symmetry ==
    \A a \in Users :
        users[a].video_state = "in_call" /\ users[a].video_partner_id \in Users
        => LET b == users[a].video_partner_id
           IN  /\ users[b].video_state = "in_call"
               /\ users[b].video_partner_id = a
               /\ users[b].video_session_id = users[a].video_session_id

\* C4: the step of match() that writes the candidate's row to in_call finds
\* the candidate searching in the committed state it writes to.
C4_ClaimOnlyIfSearching ==
    [][\A u \in Users :
          (mh[u].pc = "commit" /\ mh'[u].pc = "idle")
          => users[mh[u].other].video_state = "searching"]_vars

\* C5: every unended video session created by match() has had its candidate
\* claimed, that is, the call that created it is past its claim.
C5_ClaimBeforeCreate ==
    \A s \in SessionIds : Live(s) => Finished(s)

\* C6: a user in a call references an unended session that contains the user.
C6_InCallHasLiveSession ==
    \A u \in Users :
        users[u].video_state = "in_call"
        => /\ Live(users[u].video_session_id)
           /\ u \in Participants(users[u].video_session_id)

\* C7: video_session_id and video_partner_id are set exactly in state in_call.
C7_SessionIdIffInCall ==
    \A u \in Users :
        /\ users[u].video_session_id # None <=> users[u].video_state = "in_call"
        /\ users[u].video_partner_id # None <=> users[u].video_state = "in_call"

C9_BothSidesSameSession ==
    nreq.end = 0 =>
        \A a, b \in Users :
            (/\ IsPayload(resp[a]) /\ resp[a].match = b
             /\ sessions[resp[a].session_id].user_a_id = a
             /\ IsPayload(resp[b])
             /\ sessions[resp[b].session_id].user_a_id # b
             /\ users[b].video_session_id = resp[b].session_id)
            => /\ resp[b].session_id = resp[a].session_id
               /\ resp[b].channel = resp[a].channel

\* C10: an end(session_id) call that finds the session already ended changes
\* neither the session rows nor any user's video state or is_on_call.
C10_IdempotentEnd ==
    [][\A u \in Users :
          (/\ eh[u].pc = "commit" /\ eh'[u].pc = "idle"
           /\ eh[u].found
           /\ eh[u].ended_by_id # None)
          => /\ sessions' = sessions
             /\ \A v \in Users :
                   /\ VideoFields(users'[v]) = VideoFields(users[v])
                   /\ users'[v].is_on_call = users[v].is_on_call]_vars

\* A user row as the reset leaves it: idle, not on a call, no session and
\* no partner.
IsReset(row) ==
    /\ row.video_state = "idle"
    /\ ~row.is_on_call
    /\ row.video_session_id = None
    /\ row.video_partner_id = None

\* The step in which the end handler of u commits.
EndCommits(u) == eh[u].pc = "commit" /\ eh'[u].pc = "idle"

\* C11: an end() call whose session id resolves to a video session of the
\* caller stamps the session with ended_at = now and ended_by_id = caller
\* and leaves both participants idle, not on a call, with no session and
\* no partner id.
C11_EndStampsAndResetsBoth ==
    [][\A u \in Users :
        (EndCommits(u) /\ eh[u].found) =>
            LET sid == eh[u].session_id
            IN  /\ sessions'[sid].ended_at = now
                /\ sessions'[sid].ended_by_id = u
                /\ \A c \in Participants(sid) : IsReset(users'[c])]_vars

\* C12: an end() call without a session id, or with one that does not
\* resolve to a video session of the caller, resets the caller's row to
\* idle and changes no session row and no other user's row.
C12_EndFallbackFrame ==
    [][\A u \in Users :
        (EndCommits(u) /\ ~eh[u].found) =>
            /\ IsReset(users'[u])
            /\ sessions' = sessions
            /\ \A c \in Users \ {u} : users'[c] = users[c]]_vars

\* A free-tier user whose own gender is male or female.
FreeGendered(c) ==
    ~users[c].is_subscribed /\ users[c].gender \in {"male", "female"}

\* C13: every video session pairs a free-tier male or female user only
\* with a partner of the same gender, whichever of the two made the call
\* that created the session.
C13_FreeTierSameGender ==
    \A s \in SessionIds :
        sessions[s].mode = "video" =>
            \A c \in Participants(s) :
                FreeGendered(c) =>
                    users[OtherOf(sessions[s], c)].gender = users[c].gender

\* C13 (amended): a free-tier male or female user whose own match() call
\* selected the partner (the requester, stored as user_a_id) is paired
\* with a partner of the same gender.
C13_RequesterSameGender ==
    \A s \in SessionIds :
        (sessions[s].mode = "video" /\ FreeGendered(sessions[s].user_a_id)) =>
            users[sessions[s].user_b_id].gender
                = users[sessions[s].user_a_id].gender

\* A free-tier male or female requester has just selected a partner while
\* a user of another gender was waiting in the queue as well.
C13_Witness ==
    \E u \in Users :
        /\ mh[u].pc = "create"
        /\ FreeGendered(u)
        /\ \E c \in Candidates(u, "any", {}) :
              users[c].gender # users[u].gender

\* The reference filter of C14: may a requester with this row and this
\* preference be paired with a candidate of gender g?
RefGenderFilter(row, preference, g) ==
    IF row.is_subscribed
    THEN IF preference \in {"male", "female"} THEN g = preference ELSE TRUE
    ELSE IF row.gender \in {"male", "female"} THEN g = row.gender ELSE TRUE

\* The users eligible for requester u but for their gender, narrowed by
\* the reference filter.
RefPool(u) ==
    { c \in Candidates(u, "any", {}) :
        RefGenderFilter(users[u], NormGender(mh[u].preference),
                        users[c].gender) }

\* The step in which the match handler of u runs its candidate query.
MatchQueries(u) == mh[u].pc = "query" /\ mh'[u].pc # "query"

\* C14: for a request with a valid preference the candidate query filters
\* by gender exactly as the reference does (subscribed: the preference if
\* male or female, else no constraint; free tier: the requester's own
\* gender if male or female, else no constraint): the filtered sets are
\* equal, the partner is drawn from that set, and the call finds nobody
\* only if the set is empty.
C14_GenderFilterReference ==
    [][\A u \in Users :
        (MatchQueries(u) /\ NormGender(mh[u].preference) \in Preferences) =>
            /\ Candidates(u, DesiredGender(users[u],
                   NormPreference(mh[u].preference)), {}) = RefPool(u)
            /\ IF RefPool(u) = {}
               THEN mh'[u].pc = "idle" /\ resp'[u] = NoMatch
               ELSE mh'[u].pc = "create" /\ mh'[u].other \in RefPool(u)]_vars

\* A subscribed requester with preference female has just selected a
\* partner while a user of another gender was waiting in the queue too.
C14_Witness ==
    \E u \in Users :
        /\ mh[u].pc = "create"
        /\ users[u].is_subscribed
        /\ NormGender(mh[u].preference) = "female"
        /\ users[mh[u].other].gender = "female"
        /\ \E c \in Candidates(u, "any", {}) : users[c].gender # "female"

\* The match handler of u serves a request whose preference is none of
\* male, female, both.
InvalidPreference(u) ==
    mh[u].pc # "idle" /\ NormGender(mh[u].preference) \notin Preferences

\* C15: a match() call with an invalid preference is rejected before any
\* matching logic runs: it does not change the requester's state to
\* searching, selects no candidate and creates no session row.
C15_InvalidPreferenceRejected ==
    [][\A u \in Users :
        InvalidPreference(u) =>
            /\ users'[u].video_state = "searching"
                   => users[u].video_state = "searching"
            /\ mh'[u].pc # "create"
            /\ sessions' = sessions]_vars

\* Row c is what the candidate query asks for, gender and loop exclusion
\* aside: not on a call, seen in the last 120 s, searching, and refreshed
\* in the last 35 s.
EligibleAt(row, t) ==
    /\ ~row.is_on_call
    /\ row.last_active_at # Null
    /\ t - row.last_active_at <= 120
    /\ row.video_state = "searching"
    /\ row.video_state_updated_at # Null
    /\ t - row.video_state_updated_at <= 35

Eligible(c) == EligibleAt(users[c], now)

\* C16: the user a match() call selects is, at the time of the selection,
\* another user than the requester, not on a call, online within 120 s,
\* searching and refreshed within 35 s; no session row pairs a user with
\* themself.
C16_CandidateEligibility ==
    [][/\ \A u \in Users :
            (MatchQueries(u) /\ mh'[u].pc = "create") =>
                mh'[u].other # u /\ Eligible(mh'[u].other)
       /\ \A s \in 1..Len(sessions') :
            sessions'[s].user_a_id # sessions'[s].user_b_id]_vars

\* A requester has just selected a partner while another user, searching
\* but last refreshed more than 35 s ago, was passed over.
C16_Witness ==
    \E u \in Users :
        /\ mh[u].pc = "create"
        /\ \E c \in Users \ {u, mh[u].other} :
              /\ users[c].video_state = "searching"
              /\ now - users[c].video_state_updated_at > 35

\* The step in which the match handler of u, having found the caller not
\* in a call, marks the caller searching: the poll of a waiting user.
Polls(u) == mh[u].pc = "loaded" /\ mh'[u].pc = "query"

\* C17: a searching row is ignored by the candidate query once its last
\* poll is more than 35 s old, and only by that: the selected row was
\* refreshed within 35 s; the timestamp of a row that is searching moves
\* only in the poll of that user, to the time of the poll (no timer, no
\* sweep, no other request refreshes it); every poll of a user not in a
\* call sets the timestamp to now and leaves the user selectable; and a
\* searching row stays selectable while its timestamp is at most 35 s
\* old.
C17_StaleSearchingIgnored ==
    [][/\ \A u \in Users :
            (MatchQueries(u) /\ mh'[u].pc = "create") =>
                now - users[mh'[u].other].video_state_updated_at <= 35
       /\ \A c \in Users :
            ( /\ users'[c].video_state = "searching"
              /\ users'[c].video_state_updated_at
                     # users[c].video_state_updated_at )
                => Polls(c) /\ users'[c].video_state_updated_at = now
       /\ \A u \in Users :
            Polls(u) => /\ users'[u].video_state_updated_at = now
                        /\ EligibleAt(users'[u], now)
       /\ \A c \in Users :
            ( /\ users'[c].video_state = "searching"
              /\ now' - users'[c].video_state_updated_at <= 35 )
                => EligibleAt(users'[c], now')]_vars

\* The partners of u in the video sessions created in the last hour.
RecentPartners(u) ==
    { OtherOf(sessions[s], u) : s \in
        { t \in SessionIds :
            /\ sessions[t].mode = "video"
            /\ u \in Participants(t)
            /\ now - sessions[t].created_at <= 3600 } }

\* The eligible pool of requester u: every other user who is eligible and
\* passes the gender filter of the request.
EligiblePool(u) ==
    { c \in Users \ {u} :
        /\ Eligible(c)
        /\ RefGenderFilter(users[u], NormGender(mh[u].preference),
                           users[c].gender) }

C19_NoCandidateResult ==
    [][\A u \in Users :
        /\ (mh'[u] # mh[u] /\ mh[u].pc \in {"idle", "expired", "loaded", "query"})
              => /\ sessions' = sessions
                 /\ \A c \in Users \ {u} : users'[c] = users[c]
        /\ Polls(u)
              => /\ users'[u].video_state = "searching"
                 /\ ~users'[u].is_on_call
                 /\ users'[u].video_session_id = None
                 /\ users'[u].video_partner_id = None
        /\ (MatchQueries(u) /\ mh'[u].pc = "idle")
              => resp'[u] = NoMatch /\ users' = users]_vars

\* C20: in every committed state is_on_call is true exactly for the users
\* whose video_state is in_call.
C20_OnCallMirrorsInCall ==
    \A u \in Users : users[u].is_on_call <=> users[u].video_state = "in_call"

\* Row s of the table is a video session before and after the step.
StaysVideo(s) == sessions[s].mode = "video" /\ sessions'[s].mode = "video"

\* C21: a video session row is inserted only by the step of match() that
\* follows its candidate query, and changed only by the commit of an
\* end() that found it, in ended_at and ended_by_id; no row is deleted.
C21_SessionRowsFrame ==
    [][/\ Len(sessions') >= Len(sessions)
       /\ \A s \in 1..Len(sessions') :
            IF s \in SessionIds
            THEN sessions'[s] # sessions[s] =>
                    /\ StaysVideo(s)
                    /\ \E u \in Users : EndCommits(u) /\ eh[u].found
                                                        /\ eh[u].session_id = s
                    /\ [sessions'[s] EXCEPT !.ended_at = Null,
                                            !.ended_by_id = None]
                         = [sessions[s] EXCEPT !.ended_at = Null,
                                               !.ended_by_id = None]
            ELSE sessions'[s].mode = "video" =>
                    \E u \in Users :
                        mh[u].pc = "create" /\ mh'[u].pc = "claim"
                                            /\ mh'[u].sid = s]_vars

\* C22: every step that changes a user's video_state sets that user's
\* video_state_updated_at to the current time.
C22_StateChangeStampsTime ==
    [][\A c \in Users :
        users'[c].video_state # users[c].video_state =>
            users'[c].video_state_updated_at = now]_vars

\* A call was ended later than it began: a user is idle again, with the
\* time of the reset as timestamp, and the session was created earlier.
C22_Witness ==
    \E c \in Users, s \in SessionIds :
        /\ c \in Participants(s)
        /\ sessions[s].ended_at = now
        /\ sessions[s].created_at < now
        /\ users[c].video_state = "idle"
        /\ users[c].video_state_updated_at = now

\* The step in which the token request of user u commits its presence
\* update.
TokenTouches(u) == th[u].pc = "touch" /\ th'[u].pc = "query"

\* C23: presence throttle.  A request writes a user's last_active_at only
\* if the stored value is null or at least 30 s old: whenever the column
\* changes, and whenever a request commits its presence update, the value
\* it replaces was due.
C23_PresenceThrottle ==
    [][\A u \in Users :
        (\/ users'[u].last_active_at # users[u].last_active_at
         \/ TokenTouches(u)) => TouchDue(users[u])]_vars

\* The step that answers the token request of user u.
TokenAnswers(u) == th[u].pc = "query" /\ th'[u].pc = "idle"

\* The request of user u names a video session that u takes part in.
OwnVideoSession(u) ==
    LET session_id == th[u].session_id
    IN  /\ session_id \in SessionIds
        /\ sessions[session_id].mode = "video"
        /\ u \in Participants(session_id)

\* The answer of GET /video/token: a token exactly for a video session of
\* the caller, with that session's channel and the caller's uid, and a
\* rejection otherwise.
TokenAnswerRight(u) ==
    TokenAnswers(u) =>
        /\ th'[u].out.ok <=> OwnVideoSession(u)
        /\ ~OwnVideoSession(u) => th'[u].out.error = "404"
        /\ th'[u].out.ok =>
            /\ th'[u].out.channel = VideoPrefix \o Decimal(th[u].session_id)
            /\ th'[u].out.agora_uid = u

\* C24 as stated: a token request is answered as TokenAnswerRight says, and
\* no step of a token request changes a User or Session row.
C24_TokenRequestChangesNoRow ==
    [][\A u \in Users :
        /\ TokenAnswerRight(u)
        /\ th'[u] # th[u] => users' = users /\ sessions' = sessions]_vars

\* C24, amended: a token request is answered as TokenAnswerRight says; no
\* step of it changes a Session row, and the only column of a User row it
\* changes is the caller's last_active_at (the presence update of the
\* authentication).
C24_TokenRequestFrame ==
    [][\A u \in Users :
        /\ TokenAnswerRight(u)
        /\ th'[u] # th[u] =>
            /\ sessions' = sessions
            /\ \A c \in Users :
                users'[c] = [users[c] EXCEPT
                    !.last_active_at = users'[c].last_active_at]
            /\ \A c \in Users \ {u} : users'[c] = users[c]]_vars

\* One user holds a token for a video session, another was turned away
\* from a session it asked for.
C24_Witness ==
    \E u, c \in Users :
        /\ th[u].out.ok
        /\ th[u].out.agora_uid = u
        /\ th[c].out.error = "404"
        /\ Len(sessions) > 0

\* The Agora credentials of the deployment are incomplete.
Degraded ==
    Strip(env.app_id) = <<>> \/ Strip(env.cert) = <<>>

\* The step in which the match() call of user u finds a session for the
\* caller: the commit of a new pairing, or the re-poll of a user in a call.
MatchFinds(u) ==
    \/ mh[u].pc = "commit" /\ mh'[u].pc = "idle"
    \/ /\ mh[u].pc = "loaded" /\ mh'[u].pc = "idle"
       /\ mh[u].snap.video_session_id \in SessionIds

\* C25: degraded token mode.  With the app id or the certificate missing,
\* token issuance returns the empty token and expiry 0 without raising, and
\* a match() that found a partner answers with the session payload and
\* agora_token = "".
C25_DegradedTokenMode ==
    [][Degraded =>
        /\ \A u \in Users, s \in 1..MaxSessions, salt \in Salts :
            BuildRtcTokenFromEnv(env, Channel(s), u, now, salt)
                = [error |-> "", token |-> <<>>, expire_ts |-> 0]
        /\ \A u \in Users :
            MatchFinds(u) =>
                /\ IsPayload(resp'[u])
                /\ resp'[u].error = ""
                /\ resp'[u].agora_token = <<>>
                /\ resp'[u].session_id \in SessionIds]_vars

\* A deployment with an app id and no certificate has paired two users.
C25_Witness ==
    /\ env.app_id # <<>>
    /\ env.cert = <<>>
    /\ \E u \in Users :
        /\ IsPayload(resp[u])
        /\ resp[u].agora_token = <<>>
        /\ users[u].video_state = "in_call"

\* The step in which the match() call of user u ends with an error.
MatchFails(u) ==
    mh[u].pc # "idle" /\ mh'[u].pc = "idle" /\ resp'[u].error # ""

\* C26: failure atomicity of match().  A call that ends with an error has
\* left behind no Session row that it created and no user in in_call for
\* such a session.
C26_FailedMatchLeavesNothing ==
    [][\A u \in Users :
        MatchFails(u) =>
            /\ mh[u].sid \notin 1..Len(sessions')
            /\ \A c \in Users :
                users'[c].video_state = "in_call" =>
                    users'[c].video_session_id # mh[u].sid]_vars

\* ---- properties of the token builder -----------------------------------
\* The last call returned a token.
Built == tok.args # <<>> /\ tok.out.error = ""

\* base64.b64decode.
Base64Value(ch) ==
    IF ch >= 97 THEN ch - 97 + 26
    ELSE IF ch >= 65 THEN ch - 65
    ELSE IF ch >= 48 /\ ch <= 57 THEN ch - 48 + 52
    ELSE IF ch = 43 THEN 62
    ELSE IF ch = 47 THEN 63 ELSE 0

Base64Decode(text) ==
    LET n == Len(text)
        pad == IF n = 0 THEN 0
               ELSE IF text[n - 1] = 61 THEN 2
               ELSE IF text[n] = 61 THEN 1 ELSE 0
        v(j) == Base64Value(text[j])
        byte(k) ==
            LET g == 4 * ((k - 1) \div 3)
                r == (k - 1) % 3
            IN  IF r = 0 THEN v(g + 1) * 4 + v(g + 2) \div 16
                ELSE IF r = 1 THEN (v(g + 2) % 16) * 16 + v(g + 3) \div 4
                ELSE (v(g + 3) % 4) * 64 + v(g + 4)
    IN  [k \in 1..(3 * (n \div 4) - pad) |-> byte(k)]

\* Little-endian integers read from a byte string.
Uint16At(b, i) == b[i] + 256 * b[i + 1]
Uint32At(b, i) == Uint16At(b, i) + 65536 * Uint16At(b, i + 2)

\* The decoded content of the token of the last call, and its parts.
TokenContent ==
    Base64Decode(SubSeq(tok.out.token, Len(Version) + AppIdLength + 1,
                        Len(tok.out.token)))
TokenSignature == SubSeq(TokenContent, 3, 2 + Uint16At(TokenContent, 1))
AfterSignature ==
    SubSeq(TokenContent, 3 + Uint16At(TokenContent, 1), Len(TokenContent))
TokenMessage == SubSeq(AfterSignature, 11, Len(AfterSignature))
PrivilegeCount == Uint16At(TokenMessage, 9)
PrivilegeId(i) == Uint16At(TokenMessage, 11 + 6 * (i - 1))
PrivilegeExpiry(i) == Uint32At(TokenMessage, 13 + 6 * (i - 1))

\* C27: build_token rejects an app_id that is not exactly 32 characters
\* long; for a 32-character app_id with non-empty certificate, channel and
\* uid the token is "006", then that app_id, then the base64 content.
C27_AppIdValidation ==
    tok.args # <<>> =>
        LET app_id == tok.args[1]
        IN  /\ Len(app_id) # AppIdLength => tok.out.error = "AgoraTokenError"
            /\ (/\ Len(app_id) = AppIdLength
                /\ tok.args[2] # <<>>
                /\ tok.args[3] # <<>>
                /\ tok.args[4] >= 0) =>
                    /\ tok.out.error = ""
                    /\ SubSeq(tok.out.token, 1, Len(Version) + AppIdLength)
                        = Version \o app_id
                    /\ Base64Encode(TokenContent)
                        = SubSeq(tok.out.token,
                                 Len(Version) + AppIdLength + 1,
                                 Len(tok.out.token))

\* C28: the message body of every built token lists the join privilege;
\* with publish exactly join, publish audio, publish video and publish
\* data, without publish exactly join; privilege_count is the number of
\* privileges listed, and every privilege expires at expire_ts.
C28_TokenPrivileges ==
    Built =>
        LET listed == {PrivilegeId(i) : i \in 1..PrivilegeCount}
        IN  /\ Len(TokenMessage) = 10 + 6 * PrivilegeCount
            /\ Cardinality(listed) = PrivilegeCount
            /\ PrivJoinChannel \in listed
            /\ listed = IF tok.args[6]
                        THEN {PrivJoinChannel, PrivPublishAudio,
                              PrivPublishVideo, PrivPublishData}
                        ELSE {PrivJoinChannel}
            /\ \A i \in 1..PrivilegeCount : PrivilegeExpiry(i) = tok.args[5]

\* A token was built without the publish privileges, later than the start
\* of the clock.
C28_Witness ==
    /\ Built
    /\ ~tok.args[6]
    /\ PrivilegeCount = 1
    /\ tok.ts > TokenLifetimeSeconds

\* C29: two calls with the same arguments return the same token.
C29_BuildDeterministic ==
    [][(tok.args # <<>> /\ tok'.args = tok.args) => tok'.out = tok.out]_vars

\* The layout of the decoded content: signature, CRC32 of channel and of
\* uid, message body.
TokenLayout ==
    LET app_id == Strip(tok.args[1])
        channel == Strip(tok.args[3])
        uid == Decimal(tok.args[4])
    IN  /\ Uint16At(TokenContent, 1) = DigestSize
        /\ TokenSignature =
            HmacSha256(Strip(tok.args[2]),
                       PackString(app_id) \o PackString(channel)
                           \o PackString(uid) \o TokenMessage)
        /\ SubSeq(AfterSignature, 1, 4) = PackHalves(Crc32(channel))
        /\ SubSeq(AfterSignature, 5, 8) = PackHalves(Crc32(uid))
        /\ Uint16At(AfterSignature, 9) = Len(TokenMessage)
        /\ Uint32At(TokenMessage, 1) = tok.salt

\* C30: the decoded content of a built token has the layout TokenLayout,
\* and the second uint32 of the message body is the expiry the token was
\* built for.
C30_TokenLayout ==
    Built => TokenLayout /\ Uint32At(TokenMessage, 5) = tok.args[5]

\* The step in which the match() call of user u, having paired the caller,
\* answers.
MatchPairs(u) == mh[u].pc = "commit" /\ mh'[u].pc = "idle"

\* C31: match completeness.  The candidate query of a caller who is not in
\* a call ends the call with the empty result only if no other user is
\* eligible with the exclusion set ignored; if one is, the query selects
\* an eligible user, the call keeps that selection, and it answers with a
\* session row that pairs the caller with the selected user.
C31_MatchCompleteness ==
    [][\A u \in Users :
        /\ MatchQueries(u) =>
            IF EligiblePool(u) = {}
            THEN mh'[u].pc = "idle" /\ resp'[u] = NoMatch
            ELSE mh'[u].pc = "create" /\ mh'[u].other \in EligiblePool(u)
        /\ (mh[u].pc \in {"create", "claim"} /\ mh'[u] # mh[u]) =>
            /\ mh'[u].pc \in {"claim", "commit"}
            /\ mh'[u].other = mh[u].other
        /\ MatchPairs(u) =>
            /\ IsPayload(resp'[u])
            /\ resp'[u].match = mh[u].other
            /\ resp'[u].session_id \in SessionIds
            /\ sessions[resp'[u].session_id].mode = "video"
            /\ Participants(resp'[u].session_id) = {u, mh[u].other}]_vars

\* Within the hour of their first call two users were paired again, the
\* exclusion set relaxed: the caller holds the payload of the second
\* session.
C31_Witness ==
    \E u \in Users :
        /\ Len(sessions) = 2
        /\ Participants(2) = Participants(1)
        /\ sessions[2].created_at - sessions[1].created_at <= 3600
        /\ IsPayload(resp[u])
        /\ resp[u].session_id = 2

\* C32: an end(S) that finds session S leaves alone every user who is in
\* a call in another, live session S2: the video_state, video_session_id
\* and video_partner_id of a user who is in_call in a live video session
\* other than S, as one of its participants, are not changed by the commit
\* of the end(S).
C32_EndOfOldSessionFrame ==
    [][\A u \in Users :
          (EndCommits(u) /\ eh[u].found) =>
             \A c \in Users :
                (/\ users[c].video_state = "in_call"
                 /\ users[c].video_session_id # eh[u].session_id
                 /\ Live(users[c].video_session_id)
                 /\ c \in Participants(users[c].video_session_id))
                => VideoFields(users'[c]) = VideoFields(users[c])]_vars

\* C33: mutual selection.  With match() calls only, two users are never the
\* participants of two unended video session rows once the calls that
\* created the rows have answered: when two searching callers select each
\* other, one session row is left for the pair.
C33_MutualSelectionOneSession ==
    nreq.end = 0 =>
        \A s, t \in SessionIds :
            (s # t /\ Live(s) /\ Live(t) /\ Finished(s) /\ Finished(t))
                => Participants(s) # Participants(t)

\* The row the match() call of u loaded is in_call with a session id, and
\* the store has no video session row of that id or no row for the other
\* user of the session.
StaleInCall(u) ==
    /\ mh[u].pc = "loaded"
    /\ mh[u].snap.video_state = "in_call"
    /\ mh[u].snap.video_session_id > 0
    /\ \A s \in SessionIds :
          (s = mh[u].snap.video_session_id /\ sessions[s].mode = "video")
             => ~(\E c \in Users : c = OtherOf(sessions[s], u))

\* C34: stale in_call recovery.  A match() call that loaded a stale in_call
\* row does not answer at that step: it commits the caller's row reset
\* (idle, not on call, no session, no partner); its next step commits the
\* row as searching, stamped now; and the step after that is the candidate
\* query of a normal search, which answers the empty result or selects an
\* eligible user.
C34_StaleInCallRecovery ==
    [][\A u \in Users :
        /\ (StaleInCall(u) /\ mh'[u] # mh[u]) =>
              /\ mh'[u].pc = "stale"
              /\ resp'[u] = resp[u]
              /\ IsReset(users'[u])
        /\ (mh[u].pc = "stale" /\ mh'[u] # mh[u]) =>
              /\ mh'[u].pc = "query"
              /\ resp'[u] = resp[u]
              /\ users'[u].video_state = "searching"
              /\ users'[u].video_state_updated_at = now
              /\ ~users'[u].is_on_call
              /\ users'[u].video_session_id = None
              /\ users'[u].video_partner_id = None
        /\ MatchQueries(u) =>
              \/ mh'[u].pc = "idle" /\ resp'[u] = NoMatch
              \/ mh'[u].pc = "create" /\ mh'[u].other \in EligiblePool(u)]_vars

\* User 1, whose row every store of InitStale holds as a stale in_call
\* row, has searched and been answered: with no match, or with a session
\* created after the recovery.
C34_Witness ==
    /\ mh[1].pc = "idle"
    /\ \/ resp[1] = NoMatch /\ users[1].video_state = "searching"
       \/ /\ IsPayload(resp[1])
          /\ resp[1].session_id = Len(sessions)
          /\ 1 \in Participants(resp[1].session_id)
          /\ resp[1].match \in Users

\* C35: NEXT never re-adopts the skipped session.  The session the screen
\* holds as its current one (set by apply from a match response) is never
\* a session that next_call has skipped, that is, one for which next_call
\* sent end(S) beside a new match request.
C35_SkipNeverReadopts ==
    scr.session_id > 0 => scr.session_id \notin scr.skipped

\* The step in which apply or apply_err of the one worker runs.
Applies == Len(scr'.workers) < Len(scr.workers)

\* C36: client single-flight.  The screen never has two match workers
\* between the start of the thread and its apply; a step issues a request
\* only while none is in flight, and one at most; next_call during a
\* request records NEXT and issues nothing; and the apply that finds NEXT
\* recorded clears it, adopts no session, hands the session of the
\* arriving match (if it has one) to an end request, leaves no request in
\* flight and schedules one _request_match_once, from which on the guard
\* admits one request.
C36_ClientSingleFlight ==
    [][/\ Len(scr.workers) <= 1
       /\ Len(scr'.workers) <= 1
       /\ scr'.issued # scr.issued =>
             /\ ~scr.inflight /\ scr.workers = <<>>
             /\ scr'.inflight /\ Len(scr'.workers) = 1
             /\ scr'.issued = scr.issued + 1
       /\ (NextCall /\ scr.inflight) =>
             /\ scr'.pending_next
             /\ scr'.issued = scr.issued
             /\ scr'.ends = scr.ends
       /\ (Applies /\ scr.pending_next) =>
             /\ ~scr'.pending_next
             /\ ~scr'.inflight /\ scr'.workers = <<>>
             /\ scr'.soon = scr.soon + 1
             /\ scr'.session_id = scr.session_id
             /\ scr'.issued = scr.issued
             /\ scr'.ends = scr.ends \cup
                  {scr.workers[i].new_sid : i \in
                     {j \in DOMAIN scr.workers :
                         /\ scr.workers[j].st = "received"
                         /\ scr.workers[j].new_sid > 0}}]_vars

\* NEXT was pressed during the first request, whose response carried a
\* session: the session is handed to an end request without having been
\* the screen's current one, and the second request is in flight.
C36_Witness ==
    /\ \E s \in scr.ends : s \notin scr.skipped
    /\ ~scr.pending_next
    /\ scr.soon = 0
    /\ scr.inflight
    /\ Len(scr.workers) = 1
    /\ scr.issued = 2

====
